---- MODULE Spec2Model ----
(***************************************************************************)
(* Model of taxnomy_agent.py: the name normalizer (clean_name, is_invalid),*)
(* the two oracle wrappers and their batch retry loops, the ete3 batch     *)
(* lookup, and process_taxonomy_csv (read, partition, primary workflow,    *)
(* fallback workflow with its retry cascade, merge, write, and the two     *)
(* handlers that end a run on an exception).                               *)
(*                                                                         *)
(* Python strings are TLA+ strings, handled character by character with    *)
(* Len, SubSeq and \o.  A missing value (pandas NaN) is the token NaN.     *)
(***************************************************************************)
EXTENDS Integers, Sequences, FiniteSets, TLC

(***************************************************************************)
(* Bounds of the model.                                                    *)
(***************************************************************************)
NumRows == 2
MaxBatchLen == 3

(***************************************************************************)
(* String helpers (Python str methods used by the source).                 *)
(***************************************************************************)
NaN == "<NA>"

isna(v) == v = NaN

Char(s, k) == SubSeq(s, k, k)

IsSpace(c) == c \in {" ", "\t"}

\* sub in s
Contains(sub, s) ==
  \E k \in 1..(Len(s) - Len(sub) + 1) : SubSeq(s, k, k + Len(sub) - 1) = sub

RECURSIVE RemoveStar(_)
\* s.replace('*', '')
RemoveStar(s) ==
  IF Len(s) = 0 THEN ""
  ELSE (IF Char(s, 1) = "*" THEN "" ELSE Char(s, 1)) \o RemoveStar(SubSeq(s, 2, Len(s)))

RECURSIVE LStrip(_)
LStrip(s) ==
  IF Len(s) > 0 /\ IsSpace(Char(s, 1)) THEN LStrip(SubSeq(s, 2, Len(s))) ELSE s

RECURSIVE RStrip(_)
RStrip(s) ==
  IF Len(s) > 0 /\ IsSpace(Char(s, Len(s))) THEN RStrip(SubSeq(s, 1, Len(s) - 1)) ELSE s

\* s.strip()
Strip(s) == RStrip(LStrip(s))

UpperLetters == "ABCDEFGHIJKLMNOPQRSTUVWXYZ"
LowerLetters == "abcdefghijklmnopqrstuvwxyz"

\* the lower-case letter of each upper-case letter
LowerOf == [c \in {Char(UpperLetters, k) : k \in 1..26} |->
              Char(LowerLetters, CHOOSE k \in 1..26 : Char(UpperLetters, k) = c)]

LowerChar(c) == IF c \in DOMAIN LowerOf THEN LowerOf[c] ELSE c

RECURSIVE Lower(_)
\* s.lower()
Lower(s) ==
  IF Len(s) = 0 THEN "" ELSE LowerChar(Char(s, 1)) \o Lower(SubSeq(s, 2, Len(s)))

Digit(d) == Char("0123456789", d + 1)

RECURSIVE Str(_)
\* str(n) of a non-negative integer
Str(n) == IF n < 10 THEN Digit(n) ELSE Str(n \div 10) \o Digit(n % 10)

(***************************************************************************)
(* Name normalizer.                                                        *)
(***************************************************************************)
\* a cleaning that strips before it removes the decoration
clean_name_StripFirst(name) ==
  IF isna(name) THEN NaN ELSE RemoveStar(Strip(name))

clean_name(name) ==
  IF isna(name) THEN NaN ELSE Strip(RemoveStar(name))

is_invalid(name) ==
  IF isna(name) THEN TRUE ELSE Lower(Strip(name)) \in {"", "-", "nan"}

(***************************************************************************)
(* The oracle (Zhipu GLM).  One call either raises with a message or       *)
(* answers with a text; the helpers turn it into the outcome string.       *)
(***************************************************************************)
OracleReply(raised, text) == [raised |-> raised, text |-> text]

common_name_to_latin(reply) ==
  IF reply.raised THEN "GLM call failed: " \o reply.text
  ELSE LET latin_name == Strip(reply.text)
       IN  IF latin_name # "" THEN latin_name ELSE "unrecognizable"

latin_to_common_name(reply) ==
  IF reply.raised THEN "GLM call failed: " \o reply.text
  ELSE LET common_name == Strip(reply.text)
       IN  IF common_name # "" THEN common_name ELSE "unrecognizable"

\* retries = 3 in both batch loops
retries == 3

\* a doubling backoff
Backoff_Doubling(i) == 2 ^ (i + 1)

\* time.sleep(2 * (i + 1))
Backoff(i) == 2 * (i + 1)

\* "GLM call failed" in outcome
IsCallFailed(outcome) == Contains("GLM call failed", outcome)

(***************************************************************************)
(* Dictionaries are functions on a finite set of keys.                     *)
(***************************************************************************)
EmptyMap == << >>

Put(m, k, v) == [x \in (DOMAIN m) \cup {k} |-> IF x = k THEN v ELSE m[x]]

\* Series.map(dict): a key the dict lacks (or a missing value) maps to NaN
MapGet(m, k) == IF k \in DOMAIN m THEN m[k] ELSE NaN

\* Series.fillna(other)
fillna(v, other) == IF isna(v) THEN other ELSE v

ToSet(seq) == {seq[k] : k \in 1..Len(seq)}

\* no deduplication
Unique_Identity(seq) == seq

RECURSIVE Unique(_)
\* Series.unique(): first occurrences, in order
Unique(seq) ==
  IF Len(seq) = 0 THEN << >>
  ELSE LET front == Unique(SubSeq(seq, 1, Len(seq) - 1))
           last  == seq[Len(seq)]
       IN  IF last \in ToSet(front) THEN front ELSE Append(front, last)

\* the values of a column on the rows of a mask, in row order
RECURSIVE Column(_, _, _, _)
Column(d, mask, col, k) ==
  IF k > Len(d) THEN << >>
  ELSE (IF k \in mask THEN <<d[k][col]>> ELSE << >>) \o Column(d, mask, col, k + 1)

(***************************************************************************)
(* Identifier lookup (ete3 NCBITaxa).                                      *)
(***************************************************************************)
\* the identifiers the taxonomy database lists for a name it knows
TaxList(name) ==
  IF name = "Felis catus" THEN <<9685>>
  ELSE IF name = "Pan" THEN <<9596, 37010>>
  ELSE <<1>>

\* lines 135-140: the categorized error string of an exception message
error_str(msg) ==
  LET error_msg == Lower(msg)
  IN  IF \E keyword \in {"cache", "taxdump", "sqlite"} : Contains(keyword, error_msg)
      THEN "Cache error: " \o msg
      ELSE IF \E keyword \in {"connection", "network", "download"} : Contains(keyword, error_msg)
      THEN "Network error: " \o msg
      ELSE "Error: " \o msg

\* env: what the service does in this call: raise \in {"none", "init", "query"},
\* msg the exception message, found the names the database knows
LookupEnv(raise, msg, found) == [raise |-> raise, msg |-> msg, found |-> found]

\* a lookup that leaves the names the database lacks out of its result
batch_latin_to_taxid_ete3_FoundOnly(latin_names, env) ==
  IF latin_names = {}
  THEN [map |-> EmptyMap, inits |-> 0, queries |-> 0, raised |-> FALSE,
        found |-> {}]
  ELSE IF env.raise # "none"
  THEN [map |-> [name \in latin_names |-> error_str(env.msg)],
        inits |-> 1, queries |-> IF env.raise = "query" THEN 1 ELSE 0,
        raised |-> TRUE, found |-> {}]
  ELSE [map |-> [latin_name \in env.found \cap latin_names |->
                   Str(TaxList(latin_name)[1])],
        inits |-> 1, queries |-> 1, raised |-> FALSE,
        found |-> env.found \cap latin_names]

\* a lookup without the early return of lines 113-114
batch_latin_to_taxid_ete3_NoEarlyReturn(latin_names, env) ==
  IF env.raise # "none"
  THEN [map |-> [name \in latin_names |-> error_str(env.msg)],
        inits |-> 1, queries |-> IF env.raise = "query" THEN 1 ELSE 0,
        raised |-> TRUE, found |-> {}]
  ELSE [map |-> [latin_name \in latin_names |->
                   IF latin_name \notin env.found
                   THEN "Not found: '" \o latin_name \o "'"
                   ELSE Str(TaxList(latin_name)[1])],
        inits |-> 1, queries |-> 1, raised |-> FALSE,
        found |-> env.found \cap latin_names]

batch_latin_to_taxid_ete3(latin_names, env) ==
  IF latin_names = {}
  THEN [map |-> EmptyMap, inits |-> 0, queries |-> 0, raised |-> FALSE,
        found |-> {}]
  ELSE IF env.raise # "none"
  THEN LET taxid_map == EmptyMap
       IN  [map |-> [name \in latin_names |->
                       IF name \in DOMAIN taxid_map THEN taxid_map[name]
                       ELSE error_str(env.msg)],
            inits |-> 1,
            queries |-> IF env.raise = "query" THEN 1 ELSE 0,
            raised |-> TRUE, found |-> {}]
  ELSE LET raw_taxid_dict == [name \in env.found \cap latin_names |-> TaxList(name)]
       IN  [map |-> [latin_name \in latin_names |->
                       IF latin_name \notin DOMAIN raw_taxid_dict
                       THEN "Not found: '" \o latin_name \o "'"
                       ELSE Str(raw_taxid_dict[latin_name][1])],
            inits |-> 1, queries |-> 1, raised |-> FALSE,
            found |-> DOMAIN raw_taxid_dict]

\* a filter that only drops invalid names
Usable_ValidOnly(name) == ~is_invalid(name)

\* lines 202, 243, 250: the filter in front of a lookup or a second resolution
Usable(name) ==
  ~is_invalid(name) /\ ~Contains("failed", name) /\ ~Contains("unrecognizable", name)

\* lines 224: a lookup outcome that sends its name to the retry cascade
Retryable(taxid) == Contains("Not found", taxid) \/ Contains("Error", taxid)

(***************************************************************************)
(* Inputs: the cells a table is drawn from, what the oracle may answer and *)
(* what the taxonomy service may raise.                                    *)
(***************************************************************************)
LatinReplies  == {" Felis catus", "Pan", "unrecognizable", ""}
CommonReplies == {"cat ", "wild cat", "unrecognizable", "-"}
OracleErrors  == {"timeout"}
\* where a lookup call raises, and with what message
LookupFailures ==
  {<<"init", "SQLite is locked">>, <<"init", "Connection refused">>, <<"query", "boom">>}

\* a row of the table as read: the three columns of lines 170-172
Row(common, latin, taxid) == [common |-> common, latin |-> latin, taxid |-> taxid]

\* a row of the data frame: the three columns and the temporary buffers of
\* lines 190-192 (missing until they are filled)
FrameRow(row) ==
  [common |-> row.common, latin |-> row.latin, taxid |-> row.taxid,
   temp_common |-> NaN, temp_latin |-> NaN, temp_taxid |-> NaN]

\* the rows a table is made of: rows of the primary partition (valid Common
\* Name), of the fallback partition (invalid Common Name, valid Latin name)
\* and of neither, with decoration and padding to clean and with or without
\* a Latin name and a Taxonomy ID filled in beforehand
InputRows ==
  { Row("cat*", NaN, NaN),
    Row(" cat", " Pan*", "42"),
    Row(" -", "Felis catus", NaN),
    Row(NaN, " Pan*", "42"),
    Row(" -", "- ", NaN),
    Row(NaN, "*", "42") }

Rows == 1..NumRows

\* what is at output_path: nothing, or a file holding a table (line 277)
NoFile == [exists |-> FALSE, rows |-> << >>]

File(rows) == [exists |-> TRUE, rows |-> rows]

(***************************************************************************)
(* State of one run of process_taxonomy_csv.                               *)
(***************************************************************************)
VARIABLES
  pc,                  \* position in process_taxonomy_csv
  input,               \* the table as read (never changed)
  df,                  \* the data frame
  mask_primary,        \* rows of the primary workflow
  mask_fallback,       \* rows of the fallback workflow
  mask_attempt2,       \* rows of the retry cascade
  failed_latin_names,  \* names whose attempt-1 lookup is retryable
  names,               \* batch loop: the list being resolved
  idx,                 \* batch loop: position in names
  i,                   \* batch loop: attempt number of the current name
  rmap,                \* batch loop: latin_map / common_map so far
  hist,                \* per name, the outcome of every oracle call of this batch
  sleeps,              \* per name, the seconds slept in this batch
  latin_map,           \* primary workflow: common name -> Latin name (line 198)
  reverse_map,         \* fallback (a): Latin name -> common name (line 214)
  forward_map,         \* fallback (c): common name -> new Latin name (line 246)
  lookups,             \* per call site, the identifier lookup made there
  calls,               \* the external calls made so far, in order
  raised,              \* the step whose exception ended the run, or NaN
  raw_name,            \* normalizer alone: the value it is applied to
  cleanings,           \* normalizer alone: the successive clean_name results
  output               \* the file at output_path

vars == <<pc, input, df, mask_primary, mask_fallback, mask_attempt2,
          failed_latin_names, names, idx, i, rmap, hist, sleeps,
          latin_map, reverse_map, forward_map, lookups, calls, raised,
          raw_name, cleanings, output>>

batch_vars == <<names, idx, i, rmap, hist, sleeps>>

clean_vars == <<raw_name, cleanings>>

\* the three calls of batch_latin_to_taxid_ete3 (lines 204, 220, 252)
LookupSites == {"primary", "attempt1", "attempt2"}

NoLookup ==
  [called |-> FALSE, names |-> {}, map |-> EmptyMap, inits |-> 0, queries |-> 0,
   raised |-> FALSE, found |-> {}]

map_vars == <<latin_map, reverse_map, forward_map>>

Init ==
  /\ pc = "read"
  /\ input \in [Rows -> InputRows]
  /\ df = << >>
  /\ mask_primary = {}
  /\ mask_fallback = {}
  /\ mask_attempt2 = {}
  /\ failed_latin_names = {}
  /\ names = << >>
  /\ idx = 1
  /\ i = 0
  /\ rmap = EmptyMap
  /\ hist = EmptyMap
  /\ sleeps = EmptyMap
  /\ latin_map = EmptyMap
  /\ reverse_map = EmptyMap
  /\ forward_map = EmptyMap
  /\ lookups = [site \in LookupSites |-> NoLookup]
  /\ calls = << >>
  /\ raised = NaN
  /\ raw_name = NaN
  /\ cleanings = << >>
  /\ output = NoFile

(***************************************************************************)
(* Reading the table (lines 158-166) and the handler of the outer try      *)
(* (lines 283-287).                                                        *)
(***************************************************************************)
\* the function returns: its locals are gone
Unwind(at, stage) ==
  /\ pc' = at
  /\ raised' = stage
  /\ df' = << >>
  /\ mask_primary' = {}
  /\ mask_fallback' = {}
  /\ mask_attempt2' = {}
  /\ failed_latin_names' = {}
  /\ names' = << >>
  /\ idx' = 1
  /\ i' = 0
  /\ rmap' = EmptyMap
  /\ hist' = EmptyMap
  /\ sleeps' = EmptyMap
  /\ latin_map' = EmptyMap
  /\ reverse_map' = EmptyMap
  /\ forward_map' = EmptyMap
  /\ lookups' = [site \in LookupSites |-> NoLookup]
  /\ calls' = << >>
  /\ input' = input
  /\ UNCHANGED clean_vars

\* a handler that saves the frame as it stands before returning
Abort_Flush(stage) ==
  /\ Unwind("unexpected_error", stage)
  /\ output' = File([r \in DOMAIN df |-> Row(df[r].common, df[r].latin, df[r].taxid)])

\* lines 283-287: the exception is printed and the function returns
Abort(stage) ==
  /\ Unwind("unexpected_error", stage)
  /\ output' = output

\* lines 160, 163: pd.read_csv gives the table, at once or as latin1
ReadCsv ==
  /\ pc \in {"read", "read_latin1"}
  /\ df' = [r \in Rows |-> FrameRow(input[r])]
  /\ pc' = "start"
  /\ UNCHANGED <<input, raised, clean_vars, calls, mask_primary, mask_fallback, mask_attempt2,
                 failed_latin_names, batch_vars, map_vars, lookups, output>>

\* lines 161-162: UnicodeDecodeError, the read is tried again as latin1
ReadDecodeError ==
  /\ pc = "read"
  /\ pc' = "read_latin1"
  /\ UNCHANGED <<input, raised, clean_vars, calls, df, mask_primary, mask_fallback, mask_attempt2,
                 failed_latin_names, batch_vars, map_vars, lookups, output>>

\* lines 164-166: any other exception of the first read: message and return
ReadError ==
  /\ pc = "read"
  /\ Unwind("load_error", "read_csv")
  /\ output' = output

\* the step a position belongs to; an exception there reaches line 283
StageOf ==
  [p \in {"read_latin1", "start", "primary", "primary_resolve", "fallback",
          "fallback_resolve", "cascade_resolve", "merge", "write"} |->
     IF p = "read_latin1" THEN "read_csv_latin1"
     ELSE IF p = "start" THEN "clean"
     ELSE IF p \in {"primary", "primary_resolve"} THEN "primary"
     ELSE IF p \in {"fallback", "fallback_resolve", "cascade_resolve"} THEN "fallback"
     ELSE IF p = "merge" THEN "merge"
     ELSE "drop"]

\* an exception no inner handler takes, anywhere before to_csv
Raise ==
  /\ pc \in DOMAIN StageOf
  /\ Abort(StageOf[pc])

\* what a to_csv that raises may leave at output_path when it has opened the
\* file: the first rows of the table
PartialFiles(d) ==
  {File([r \in 1..k |-> Row(d[r].common, d[r].latin, d[r].taxid)]) :
     k \in 0..(Len(d) - 1)}

\* line 277 raises
WriteError ==
  /\ pc = "write"
  /\ Unwind("unexpected_error", "to_csv")
  /\ \/ output' = output
     \/ output' \in PartialFiles(df)

(***************************************************************************)
(* Step 1: clean and partition (lines 179-192).                            *)
(***************************************************************************)
\* line 186
MaskPrimary(d) == {r \in DOMAIN d : ~is_invalid(d[r].common)}

\* a fallback mask that forgets the Latin name test
MaskFallback_CommonOnly(d) == {r \in DOMAIN d : is_invalid(d[r].common)}

\* a fallback mask that forgets the Common Name test
MaskFallback_LatinOnly(d) == {r \in DOMAIN d : ~is_invalid(d[r].latin)}

\* line 187
MaskFallback(d) == {r \in DOMAIN d : is_invalid(d[r].common) /\ ~is_invalid(d[r].latin)}

Clean ==
  /\ pc = "start"
  /\ LET cleaned == [r \in DOMAIN df |->
                       [df[r] EXCEPT !.common = clean_name(@),
                                     !.latin = clean_name(@),
                                     !.temp_common = NaN,
                                     !.temp_latin = NaN,
                                     !.temp_taxid = NaN]]
     IN  /\ df' = cleaned
         /\ mask_primary' = MaskPrimary(cleaned)
         /\ mask_fallback' = MaskFallback(cleaned)
  /\ pc' = "primary"
  /\ UNCHANGED <<input, raised, clean_vars, calls, mask_attempt2, failed_latin_names, batch_vars, map_vars, lookups, output>>

(***************************************************************************)
(* The batch loops batch_common_to_latin and batch_latin_to_common.        *)
(***************************************************************************)
\* entering a batch loop over a list of names
BatchEnter(list) ==
  /\ names' = list
  /\ idx' = 1
  /\ i' = 0
  /\ rmap' = EmptyMap
  /\ hist' = [n \in ToSet(list) |-> << >>]
  /\ sleeps' = [n \in ToSet(list) |-> << >>]

\* leaving it: the locals are gone
BatchLeave ==
  /\ names' = << >>
  /\ idx' = 1
  /\ i' = 0
  /\ rmap' = EmptyMap
  /\ hist' = EmptyMap
  /\ sleeps' = EmptyMap

BatchRunning == idx <= Len(names)

BatchReturned == idx > Len(names)

\* one pass of the inner loop for names[idx]: the single call gave `outcome`
BatchStep(outcome) ==
  LET name == names[idx]
  IN  /\ hist' = [hist EXCEPT ![name] = Append(@, outcome)]
      /\ IF ~IsCallFailed(outcome)
         THEN /\ rmap' = Put(rmap, name, outcome)
              /\ idx' = idx + 1
              /\ i' = 0
              /\ sleeps' = sleeps
         ELSE /\ sleeps' = [sleeps EXCEPT ![name] = Append(@, Backoff(i))]
              /\ IF i + 1 < retries
                 THEN /\ i' = i + 1
                      /\ rmap' = rmap
                      /\ idx' = idx
                 ELSE /\ rmap' = Put(rmap, name, "GLM call failed")
                      /\ idx' = idx + 1
                      /\ i' = 0
      /\ names' = names

\* the log of external calls: the oracle calls of a batch loop are written
\* under the position of the loop, a call of batch_latin_to_taxid_ete3 under
\* its site; successive calls of one loop are written once
Log(log, call) ==
  IF Len(log) > 0 /\ log[Len(log)] = call THEN log ELSE Append(log, call)

OracleReplies(texts) ==
  {OracleReply(FALSE, t) : t \in texts} \cup {OracleReply(TRUE, e) : e \in OracleErrors}

batch_common_to_latin ==
  /\ pc \in {"primary_resolve", "cascade_resolve", "call_common_to_latin"}
  /\ BatchRunning
  /\ \E reply \in OracleReplies(LatinReplies) :
       \E latin_name \in {common_name_to_latin(reply)} : BatchStep(latin_name)
  /\ calls' = Log(calls, pc)
  /\ UNCHANGED <<pc, input, raised, clean_vars, df, mask_primary, mask_fallback, mask_attempt2,
                 failed_latin_names, map_vars, lookups, output>>

batch_latin_to_common ==
  /\ pc \in {"fallback_resolve", "call_latin_to_common"}
  /\ BatchRunning
  /\ \E reply \in OracleReplies(CommonReplies) :
       \E common_name \in {latin_to_common_name(reply)} : BatchStep(common_name)
  /\ calls' = Log(calls, pc)
  /\ UNCHANGED <<pc, input, raised, clean_vars, df, mask_primary, mask_fallback, mask_attempt2,
                 failed_latin_names, map_vars, lookups, output>>

\* the service's behaviours in one lookup call for a batch
LookupEnvs(batch) ==
  {LookupEnv("none", "", found) : found \in SUBSET batch}
    \cup {LookupEnv(f[1], f[2], {}) : f \in LookupFailures}

Lookup(batch, res) ==
  [called |-> TRUE, names |-> batch, map |-> res.map, inits |-> res.inits,
   queries |-> res.queries, raised |-> res.raised, found |-> res.found]

\* lines 200-203 and 248-251: the deduplicated, filtered values of a resolver map
LookupBatch(map) == {map[k] : k \in {x \in DOMAIN map : Usable(map[x])}}

(***************************************************************************)
(* Step 2: primary workflow (lines 194-207).                               *)
(***************************************************************************)
PrimaryStart ==
  /\ pc = "primary"
  /\ Cardinality(mask_primary) > 0
  /\ BatchEnter(Unique(Column(df, mask_primary, "common", 1)))
  /\ pc' = "primary_resolve"
  /\ UNCHANGED <<input, raised, clean_vars, calls, df, mask_primary, mask_fallback, mask_attempt2,
                 failed_latin_names, map_vars, lookups, output>>

PrimarySkip ==
  /\ pc = "primary"
  /\ Cardinality(mask_primary) = 0
  /\ pc' = "fallback"
  /\ UNCHANGED <<input, raised, clean_vars, calls, df, mask_primary, mask_fallback, mask_attempt2,
                 failed_latin_names, batch_vars, map_vars, lookups, output>>

\* a primary workflow that leaves a row with a Latin name of its own alone
PrimaryAssign_KeepExisting(d, to_latin, taxid_map) ==
  [r \in DOMAIN d |->
     IF r \in mask_primary /\ is_invalid(d[r].latin)
     THEN LET temp_latin == MapGet(to_latin, d[r].common)
          IN  [d[r] EXCEPT !.temp_latin = temp_latin,
                           !.temp_taxid = MapGet(taxid_map, temp_latin)]
     ELSE d[r]]

\* lines 206-207
PrimaryAssign(d, to_latin, taxid_map) ==
  [r \in DOMAIN d |->
     IF r \in mask_primary
     THEN LET temp_latin == MapGet(to_latin, d[r].common)
          IN  [d[r] EXCEPT !.temp_latin = temp_latin,
                           !.temp_taxid = MapGet(taxid_map, temp_latin)]
     ELSE d[r]]

PrimaryLookup ==
  /\ pc = "primary_resolve"
  /\ BatchReturned
  /\ latin_map' = rmap
  /\ \E unique_latin_names \in {LookupBatch(rmap)} :
       \E env \in LookupEnvs(unique_latin_names) :
         \E taxid_map \in {batch_latin_to_taxid_ete3(unique_latin_names, env)} :
           /\ lookups' = [lookups EXCEPT !["primary"] = Lookup(unique_latin_names, taxid_map)]
           /\ df' = PrimaryAssign(df, rmap, taxid_map.map)
  /\ BatchLeave
  /\ calls' = Log(calls, "primary")
  /\ pc' = "fallback"
  /\ UNCHANGED <<input, raised, clean_vars, mask_primary, mask_fallback, mask_attempt2,
                 failed_latin_names, reverse_map, forward_map, output>>

(***************************************************************************)
(* Step 3: fallback workflow (lines 209-256).                              *)
(***************************************************************************)
FallbackStart ==
  /\ pc = "fallback"
  /\ Cardinality(mask_fallback) > 0
  /\ BatchEnter(Unique(Column(df, mask_fallback, "latin", 1)))
  /\ pc' = "fallback_resolve"
  /\ UNCHANGED <<input, raised, clean_vars, calls, df, mask_primary, mask_fallback, mask_attempt2,
                 failed_latin_names, map_vars, lookups, output>>

FallbackSkip ==
  /\ pc = "fallback"
  /\ Cardinality(mask_fallback) = 0
  /\ pc' = "merge"
  /\ UNCHANGED <<input, raised, clean_vars, calls, df, mask_primary, mask_fallback, mask_attempt2,
                 failed_latin_names, batch_vars, map_vars, lookups, output>>

\* lines 222-225
FailedLatinNames(taxid_map_attempt1) ==
  {name \in DOMAIN taxid_map_attempt1 : Retryable(taxid_map_attempt1[name])}

\* lines 217, 228-229
Attempt1Assign(d, to_common, taxid_map_attempt1) ==
  [r \in DOMAIN d |->
     IF r \in mask_fallback
     THEN [d[r] EXCEPT !.temp_common = MapGet(to_common, d[r].latin),
                       !.temp_latin = d[r].latin,
                       !.temp_taxid = MapGet(taxid_map_attempt1, d[r].latin)]
     ELSE d[r]]

\* a retry cascade over every fallback row
MaskAttempt2_AllFallback(d, failed) == mask_fallback

\* line 235
MaskAttempt2(d, failed) == {r \in mask_fallback : d[r].latin \in failed}

\* a cascade that resolves every recovered common name again
NewCommonNames_Unfiltered(d, mask) == Unique(Column(d, mask, "temp_common", 1))

\* lines 238-244
NewCommonNames(d, mask) == SelectSeq(Unique(Column(d, mask, "temp_common", 1)), Usable)

\* a fallback workflow that always goes on to attempt 2
CascadeNeeded_Always(failed) == TRUE

\* line 231: if failed_latin_names
CascadeNeeded(failed) == failed # {}

FallbackAttempt1 ==
  /\ pc = "fallback_resolve"
  /\ BatchReturned
  /\ reverse_map' = rmap
  /\ \E unique_latin_fallback \in {ToSet(names)} :
       \E env \in LookupEnvs(unique_latin_fallback) :
         \E taxid_map_attempt1 \in {batch_latin_to_taxid_ete3(unique_latin_fallback, env)} :
           \E failed \in {FailedLatinNames(taxid_map_attempt1.map)},
              d \in {Attempt1Assign(df, rmap, taxid_map_attempt1.map)} :
             /\ lookups' = [lookups EXCEPT
                              !["attempt1"] = Lookup(unique_latin_fallback, taxid_map_attempt1)]
             /\ df' = d
             /\ failed_latin_names' = failed
             /\ IF CascadeNeeded(failed)
                THEN /\ mask_attempt2' = MaskAttempt2(d, failed)
                     /\ BatchEnter(NewCommonNames(d, MaskAttempt2(d, failed)))
                     /\ pc' = "cascade_resolve"
                ELSE /\ mask_attempt2' = {}
                     /\ BatchLeave
                     /\ pc' = "merge"
  /\ calls' = Log(calls, "attempt1")
  /\ UNCHANGED <<input, raised, clean_vars, mask_primary, mask_fallback, latin_map,
                 forward_map, output>>

\* an attempt-2 join keyed by the row's Latin name instead of its temp_common
Attempt2Assign_ByLatin(d, to_latin, taxid_map_attempt2) ==
  [r \in DOMAIN d |->
     IF r \in mask_attempt2
     THEN LET temp_latin == MapGet(to_latin, d[r].latin)
          IN  [d[r] EXCEPT !.temp_latin = temp_latin,
                           !.temp_taxid = MapGet(taxid_map_attempt2, temp_latin)]
     ELSE d[r]]

\* an attempt-2 join that serves only the first row of each recovered common
\* name
Attempt2Assign_FirstRowOnly(d, to_latin, taxid_map_attempt2) ==
  [r \in DOMAIN d |->
     IF /\ r \in mask_attempt2
        /\ \A q \in mask_attempt2 : d[q].temp_common = d[r].temp_common => q >= r
     THEN LET temp_latin == MapGet(to_latin, d[r].temp_common)
          IN  [d[r] EXCEPT !.temp_latin = temp_latin,
                           !.temp_taxid = MapGet(taxid_map_attempt2, temp_latin)]
     ELSE d[r]]

\* lines 255-256
Attempt2Assign(d, to_latin, taxid_map_attempt2) ==
  [r \in DOMAIN d |->
     IF r \in mask_attempt2
     THEN LET temp_latin == MapGet(to_latin, d[r].temp_common)
          IN  [d[r] EXCEPT !.temp_latin = temp_latin,
                           !.temp_taxid = MapGet(taxid_map_attempt2, temp_latin)]
     ELSE d[r]]

CascadeLookup ==
  /\ pc = "cascade_resolve"
  /\ BatchReturned
  /\ forward_map' = rmap
  /\ \E new_latin_names \in {LookupBatch(rmap)} :
       \E env \in LookupEnvs(new_latin_names) :
         \E taxid_map_attempt2 \in {batch_latin_to_taxid_ete3(new_latin_names, env)} :
           /\ lookups' = [lookups EXCEPT
                            !["attempt2"] = Lookup(new_latin_names, taxid_map_attempt2)]
           /\ df' = Attempt2Assign(df, rmap, taxid_map_attempt2.map)
  /\ BatchLeave
  /\ calls' = Log(calls, "attempt2")
  /\ pc' = "merge"
  /\ UNCHANGED <<input, raised, clean_vars, mask_primary, mask_fallback, mask_attempt2,
                 failed_latin_names, latin_map, reverse_map, output>>

(***************************************************************************)
(* Steps 4 and 5: merge (lines 258-273), drop and write (lines 275-277).   *)
(***************************************************************************)
\* lines 260-263
SentinelMap ==
  [k \in {"unrecognizable", "GLM call failed"} |-> k]

\* a merge without the sentinel carry
CarrySentinel_None(temp_taxid, temp_latin) == temp_taxid

CarrySentinel(temp_taxid, temp_latin) ==
  fillna(temp_taxid, MapGet(SentinelMap, temp_latin))

\* a merge that assigns the temp columns instead of filling from them
MergeRow_Overwrite(row) ==
  LET temp_taxid == fillna(row.temp_taxid, MapGet(SentinelMap, row.temp_latin))
  IN  [row EXCEPT !.temp_taxid = temp_taxid,
                  !.common = row.temp_common,
                  !.latin = row.temp_latin,
                  !.taxid = temp_taxid]

\* lines 260-273 on one row
MergeRow(row) ==
  LET temp_taxid == CarrySentinel(row.temp_taxid, row.temp_latin)
  IN  [row EXCEPT !.temp_taxid = temp_taxid,
                  !.common = fillna(row.temp_common, row.common),
                  !.latin = fillna(row.temp_latin, row.latin),
                  !.taxid = fillna(temp_taxid, row.taxid)]

Merge ==
  /\ pc = "merge"
  /\ df' = [r \in DOMAIN df |-> MergeRow(df[r])]
  /\ pc' = "write"
  /\ UNCHANGED <<input, raised, clean_vars, calls, mask_primary, mask_fallback, mask_attempt2,
                 failed_latin_names, batch_vars, map_vars, lookups, output>>

\* line 275
DropTemp(row) ==
  [row EXCEPT !.temp_common = NaN, !.temp_latin = NaN, !.temp_taxid = NaN]

Write ==
  /\ pc = "write"
  /\ df' = [r \in DOMAIN df |-> DropTemp(df[r])]
  /\ output' = File([r \in DOMAIN df |-> Row(df[r].common, df[r].latin, df[r].taxid)])
  /\ pc' = "done"
  /\ UNCHANGED <<input, raised, clean_vars, calls, mask_primary, mask_fallback, mask_attempt2,
                 failed_latin_names, batch_vars, map_vars, lookups>>

Next ==
  \/ ReadCsv
  \/ ReadDecodeError
  \/ ReadError
  \/ Raise
  \/ WriteError
  \/ Clean
  \/ PrimaryStart
  \/ PrimarySkip
  \/ batch_common_to_latin
  \/ PrimaryLookup
  \/ FallbackStart
  \/ FallbackSkip
  \/ batch_latin_to_common
  \/ FallbackAttempt1
  \/ CascadeLookup
  \/ Merge
  \/ Write

Spec == Init /\ [][Next]_vars

(***************************************************************************)
(* A batch function called on its own, on any list of names, repeats       *)
(* included.                                                               *)
(***************************************************************************)
BatchNames == {"cat", "dog"}

BatchLists == UNION {[1..n -> BatchNames] : n \in 0..MaxBatchLen}

InitBatch ==
  /\ pc \in {"call_common_to_latin", "call_latin_to_common"}
  /\ input = << >>
  /\ df = << >>
  /\ mask_primary = {}
  /\ mask_fallback = {}
  /\ mask_attempt2 = {}
  /\ failed_latin_names = {}
  /\ names \in BatchLists
  /\ idx = 1
  /\ i = 0
  /\ rmap = EmptyMap
  /\ hist = [n \in ToSet(names) |-> << >>]
  /\ sleeps = [n \in ToSet(names) |-> << >>]
  /\ latin_map = EmptyMap
  /\ reverse_map = EmptyMap
  /\ forward_map = EmptyMap
  /\ lookups = [site \in LookupSites |-> NoLookup]
  /\ calls = << >>
  /\ raised = NaN
  /\ raw_name = NaN
  /\ cleanings = << >>
  /\ output = NoFile

\* lines 91, 109: return latin_map / common_map
BatchReturn ==
  /\ pc \in {"call_common_to_latin", "call_latin_to_common"}
  /\ BatchReturned
  /\ pc' = "returned"
  /\ UNCHANGED <<input, raised, clean_vars, calls, df, mask_primary, mask_fallback, mask_attempt2,
                 failed_latin_names, batch_vars, map_vars, lookups, output>>

NextBatch ==
  \/ batch_common_to_latin
  \/ batch_latin_to_common
  \/ BatchReturn

SpecBatch == InitBatch /\ [][NextBatch]_vars

(***************************************************************************)
(* The normalizer called on its own: clean_name applied again and again to *)
(* a value, each result classified by is_invalid (as lines 180-184 do      *)
(* once).                                                                  *)
(***************************************************************************)
MaxNameLen == 4
MaxCleanings == 2

\* the characters names are made of: decoration, whitespace, dash, letters
NameChars == {"*", " ", "-", "n", "a", "N"}

RECURSIVE Join(_)
\* the string of a sequence of characters
Join(chars) ==
  IF Len(chars) = 0 THEN "" ELSE chars[1] \o Join(Tail(chars))

\* every value a name cell can hold: missing, or a string
NameValues ==
  {NaN} \cup {Join(chars) : chars \in UNION {[1..n -> NameChars] : n \in 0..MaxNameLen}}

InitClean ==
  /\ pc = "call_clean_name"
  /\ input = << >>
  /\ df = << >>
  /\ mask_primary = {}
  /\ mask_fallback = {}
  /\ mask_attempt2 = {}
  /\ failed_latin_names = {}
  /\ names = << >>
  /\ idx = 1
  /\ i = 0
  /\ rmap = EmptyMap
  /\ hist = EmptyMap
  /\ sleeps = EmptyMap
  /\ latin_map = EmptyMap
  /\ reverse_map = EmptyMap
  /\ forward_map = EmptyMap
  /\ lookups = [site \in LookupSites |-> NoLookup]
  /\ calls = << >>
  /\ raised = NaN
  /\ raw_name \in NameValues
  /\ cleanings = << >>
  /\ output = NoFile

\* clean_name applied to the last result, and the result classified
CleanAndClassify ==
  /\ pc = "call_clean_name"
  /\ Len(cleanings) < MaxCleanings
  /\ LET cleaned_name == clean_name(IF Len(cleanings) = 0 THEN raw_name
                                    ELSE cleanings[Len(cleanings)].name)
     IN  cleanings' = Append(cleanings, [name |-> cleaned_name,
                                         invalid |-> is_invalid(cleaned_name)])
  /\ UNCHANGED <<pc, input, raised, raw_name, df, mask_primary, mask_fallback,
                 mask_attempt2, failed_latin_names, batch_vars, map_vars,
                 lookups, calls, output>>

NextClean == CleanAndClassify

SpecClean == InitClean /\ [][NextClean]_vars

(***************************************************************************)
(* Properties.                                                             *)
(***************************************************************************)
Sentinels == {"unrecognizable", "GLM call failed"}

\* the name cells of the input rows
NameCells == {row.common : row \in InputRows} \cup {row.latin : row \in InputRows}

\* clean_name and is_invalid, tabulated on the name cells
CleanedCell == [c \in NameCells |-> clean_name(c)]
InvalidCleanedCell == [c \in NameCells |-> is_invalid(clean_name(c))]

\* the row's name columns as cleaned in step 1
CleanedCommon(r) == CleanedCell[input[r].common]
CleanedLatin(r) == CleanedCell[input[r].latin]

CommonIsInvalid(r) == InvalidCleanedCell[input[r].common]
LatinIsInvalid(r) == InvalidCleanedCell[input[r].latin]

BothInvalid(r) == CommonIsInvalid(r) /\ LatinIsInvalid(r)

\* the values fallback (a) can recover as a common name
CommonOutcomes == {"cat", "wild cat", "unrecognizable", "-", "GLM call failed"}

\* the filter of lines 241-244, tabulated on them
UsableCommon == [c \in CommonOutcomes |-> Usable(c)]

\* the run has partitioned the table and has not ended on an exception
Partitioned ==
  pc \notin {"read", "read_latin1", "start", "load_error", "unexpected_error"}

\* C1: after cleaning, the primary rows are the rows with a valid Common Name,
\* the fallback rows those with an invalid Common Name and a valid Latin name;
\* the two sets are disjoint and, with the both-invalid rows, they cover the
\* table, each row in exactly one of the three.
C1_Partition ==
  Partitioned =>
    LET both == {r \in Rows : BothInvalid(r)}
    IN  /\ mask_primary = {r \in Rows : ~CommonIsInvalid(r)}
        /\ mask_fallback = {r \in Rows : CommonIsInvalid(r) /\ ~LatinIsInvalid(r)}
        /\ mask_primary \cap mask_fallback = {}
        /\ mask_primary \cup mask_fallback \cup both = Rows
        /\ \A r \in Rows :
             Cardinality({S \in {mask_primary, mask_fallback, both} : r \in S}) = 1

C1_Witness ==
  /\ pc = "primary"
  /\ mask_primary # {}
  /\ mask_fallback # {}
  /\ \E r \in mask_primary : ~LatinIsInvalid(r)

\* C2 as stated: after the merge, a column with no temp value on a row holds
\* the row's original input value.
C2_OriginalFrame ==
  pc = "write" =>
    \A r \in Rows :
      /\ isna(df[r].temp_common) => df[r].common = input[r].common
      /\ isna(df[r].temp_latin) => df[r].latin = input[r].latin
      /\ isna(df[r].temp_taxid) => df[r].taxid = input[r].taxid

\* C2 as amended: after the merge, a name column with no temp value on a row
\* holds the row's cleaned input value (clean_name of the input), and the
\* Taxonomy ID with no temp value holds the row's input value.
C2_CleanedFrame ==
  pc = "write" =>
    \A r \in Rows :
      /\ isna(df[r].temp_common) => df[r].common = CleanedCommon(r)
      /\ isna(df[r].temp_latin) => df[r].latin = CleanedLatin(r)
      /\ isna(df[r].temp_taxid) => df[r].taxid = input[r].taxid

C2_Witness ==
  /\ pc = "write"
  /\ \E r \in Rows :
       /\ isna(df[r].temp_common) /\ isna(df[r].temp_latin) /\ isna(df[r].temp_taxid)
       /\ df[r].latin # input[r].latin
       /\ ~isna(input[r].taxid)
  /\ \E r \in Rows : ~isna(df[r].temp_taxid) /\ ~isna(df[r].temp_common)

\* C3: a fallback row whose attempt-1 lookup is "Not found", whose Latin name
\* resolves to a valid common name C, whose C resolves again to L2 and whose
\* L2 the attempt-2 lookup knows, ends with Latin name L2 and with L2's
\* identifier, not with the "Not found" outcome.
C3_RetryCascade ==
  pc \in {"write", "done"} =>
    \A r \in mask_fallback :
      LET L == CleanedLatin(r)
          C == reverse_map[L]
          L2 == forward_map[C]
      IN  ( /\ lookups["attempt1"].map[L] = "Not found: '" \o L \o "'"
            /\ ~is_invalid(C)
            /\ C \in DOMAIN forward_map
            /\ L2 \in lookups["attempt2"].found )
          => /\ df[r].latin = L2
             /\ df[r].taxid = lookups["attempt2"].map[L2]
             /\ df[r].taxid \in {"9685", "9596"}
             /\ pc = "done" => output.rows[r].latin = L2 /\ output.rows[r].taxid = df[r].taxid

C3_Witness ==
  /\ pc = "done"
  /\ \E r \in mask_fallback :
       /\ lookups["attempt1"].map[CleanedLatin(r)] = "Not found: 'Pan'"
       /\ reverse_map["Pan"] = "wild cat"
       /\ forward_map["wild cat"] = "Felis catus"
       /\ output.rows[r].latin = "Felis catus"
       /\ output.rows[r].taxid = "9685"

\* C4: neither the primary lookup nor the attempt-2 lookup is ever given a
\* batch holding "unrecognizable" or a call-failed outcome of the resolver.
C4_NoSentinelLookedUp ==
  \A site \in {"primary", "attempt2"} :
    \A name \in lookups[site].names :
      name \notin Sentinels /\ ~IsCallFailed(name)

C4_Witness ==
  /\ lookups["attempt2"].called
  /\ lookups["attempt2"].names # {}
  /\ \E c \in DOMAIN forward_map : forward_map[c] \in Sentinels

\* C5: the merge gives a row whose temp_latin is "unrecognizable" or
\* "GLM call failed" and whose temp_taxid is empty that sentinel as Latin name
\* and as Taxonomy ID; a primary row whose common name resolved to
\* "unrecognizable" ends with both columns "unrecognizable".
C5_SentinelCarried ==
  [][ /\ (pc = "merge" /\ pc' = "write") =>
           \A r \in Rows :
             (df[r].temp_latin \in Sentinels /\ isna(df[r].temp_taxid))
               => /\ df'[r].latin = df[r].temp_latin
                  /\ df'[r].taxid = df[r].temp_latin
      /\ pc' = "write" =>
           \A r \in mask_primary :
             latin_map[CleanedCommon(r)] = "unrecognizable"
               => df'[r].latin = "unrecognizable" /\ df'[r].taxid = "unrecognizable"
    ]_vars

C5_Witness ==
  /\ pc = "write"
  /\ \E r \in mask_primary :
       /\ latin_map[CleanedCommon(r)] = "unrecognizable"
       /\ df[r].taxid = "unrecognizable"
       /\ input[r].taxid = "42"
  /\ \E r \in mask_fallback :
       df[r].temp_latin = "GLM call failed" /\ df[r].taxid = "GLM call failed"

\* the oracle calls of this batch that failed, for one name
FailedCalls(h) == Cardinality({k \in 1..Len(h) : IsCallFailed(h[k])})

\* C6: in every batch loop of a run, a name whose oracle calls all fail is
\* called exactly 3 times, with sleeps of 2, 4 and 6 seconds in that order, and
\* is mapped to "GLM call failed"; a name with a call that does not fail is
\* mapped to that call's value and is not called again.
C6_RetryPolicy ==
  pc \in {"primary_resolve", "fallback_resolve", "cascade_resolve"} =>
    \A n \in ToSet(names) :
      LET h == hist[n]
      IN  /\ Len(h) <= 3
          /\ \A k \in 1..(Len(h) - 1) : IsCallFailed(h[k])
          /\ sleeps[n] = SubSeq(<<2, 4, 6>>, 1, FailedCalls(h))
          /\ n \in DOMAIN rmap =>
               /\ Len(h) >= 1
               /\ IF IsCallFailed(h[Len(h)])
                  THEN Len(h) = 3 /\ rmap[n] = "GLM call failed"
                  ELSE rmap[n] = h[Len(h)]
          /\ n \notin DOMAIN rmap => Len(h) < 3 /\ FailedCalls(h) = Len(h)
          /\ BatchReturned => n \in DOMAIN rmap

C6_Witness ==
  /\ pc = "fallback_resolve"
  /\ BatchReturned
  /\ \E n, m \in DOMAIN rmap :
       /\ rmap[n] = "GLM call failed"
       /\ sleeps[n] = <<2, 4, 6>>
       /\ Len(hist[m]) = 2
       /\ rmap[m] = "wild cat"

\* C7: a batch function called on a list with repeated names returns one
\* outcome per distinct name, for every name of the list, and calls the oracle
\* once for a name whose calls succeed.
C7_Dedup ==
  pc = "returned" =>
    /\ DOMAIN rmap = ToSet(names)
    /\ \A n \in ToSet(names) :
         (\A k \in 1..Len(hist[n]) : ~IsCallFailed(hist[n][k])) => Len(hist[n]) = 1

\* C8 as stated: a row with both names invalid is in neither partition and
\* leaves the run with its three columns equal to their input values.
C8_OriginalUntouched ==
  \A r \in Rows :
    BothInvalid(r) =>
      /\ Partitioned => r \notin mask_primary /\ r \notin mask_fallback
      /\ pc = "done" =>
           /\ output.rows[r].common = input[r].common
           /\ output.rows[r].latin = input[r].latin
           /\ output.rows[r].taxid = input[r].taxid

\* C8 as amended: a row with both names invalid is in neither partition and
\* leaves the run with its two name columns equal to their cleaned input
\* values (clean_name of the input) and its Taxonomy ID equal to the input.
C8_CleanedUntouched ==
  \A r \in Rows :
    BothInvalid(r) =>
      /\ Partitioned => r \notin mask_primary /\ r \notin mask_fallback
      /\ pc = "done" =>
           /\ output.rows[r].common = CleanedCommon(r)
           /\ output.rows[r].latin = CleanedLatin(r)
           /\ output.rows[r].taxid = input[r].taxid

C8_Witness ==
  /\ pc = "done"
  /\ \E r \in Rows :
       /\ BothInvalid(r)
       /\ output.rows[r].latin # input[r].latin
       /\ output.rows[r].taxid = "42"
  /\ \E r \in Rows : output.rows[r].taxid # input[r].taxid

\* C9: the retryable subset of the fallback workflow is exactly the names
\* whose attempt-1 outcome is "Not found" or an error of the lookup, of
\* whatever category; no name with an identifier is in it.
C9_RetryableSubset ==
  lookups["attempt1"].called =>
    failed_latin_names =
      {name \in lookups["attempt1"].names :
         lookups["attempt1"].raised \/ name \notin lookups["attempt1"].found}

\* C10: every lookup returns a mapping whose keys are the names it was given;
\* without an exception a name maps to its first identifier as a string or to
\* "Not found: '<name>'"; with an exception every name maps to one categorized
\* error string; the service is queried at most once in a call.
C10_LookupResult ==
  \A site \in LookupSites :
    LET call == lookups[site]
    IN  call.called =>
          /\ DOMAIN call.map = call.names
          /\ call.queries <= 1
          /\ ~call.raised =>
               \A name \in call.names :
                 call.map[name] =
                   IF name \notin call.found THEN "Not found: '" \o name \o "'"
                   ELSE IF name = "Felis catus" THEN "9685"
                   ELSE IF name = "Pan" THEN "9596"
                   ELSE "1"
          /\ call.raised =>
               \E e \in {"Cache error: SQLite is locked",
                         "Network error: Connection refused",
                         "Error: boom"} :
                 \A name \in call.names : call.map[name] = e

C10_Witness ==
  /\ lookups["attempt1"].called
  /\ ~lookups["attempt1"].raised
  /\ lookups["attempt1"].found = {"Felis catus"}
  /\ lookups["attempt1"].names = {"Felis catus", "Pan"}
  /\ lookups["attempt2"].called
  /\ lookups["attempt2"].raised
  /\ lookups["attempt2"].names # {}

\* C11: a run that ends on an exception raised before to_csv (the read after
\* its latin1 attempt, clean, primary, fallback, merge, drop) has written no
\* output file; a file exists only once the merge is done and the temp columns
\* are dropped, and it holds the merged columns; every exception ends in one
\* of the two handlers, after which the function has returned.
C11_NoPartialOutput ==
  /\ (raised # NaN /\ raised # "to_csv") => output = NoFile
  /\ output.exists => (pc = "done" \/ raised = "to_csv")
  /\ pc = "done" =>
       /\ raised = NaN
       /\ \A r \in Rows :
            /\ isna(df[r].temp_common) /\ isna(df[r].temp_latin) /\ isna(df[r].temp_taxid)
            /\ output.exists
            /\ output.rows[r] = Row(df[r].common, df[r].latin, df[r].taxid)
  /\ raised # NaN <=> pc \in {"load_error", "unexpected_error"}
  /\ pc = "load_error" <=> raised = "read_csv"

C11_Witness ==
  /\ pc = "unexpected_error"
  /\ raised = "merge"
  /\ output = NoFile
  /\ \E r \in Rows : input[r].common = "cat*"

\* C12: a primary row whose common name the oracle resolved to a Latin name L
\* that the primary lookup found ends with Latin name L and Taxonomy ID the
\* identifier of L, whatever Latin name and Taxonomy ID it had on input, and
\* with its Common Name equal to the cleaned input value.
C12_PrimaryOverrides ==
  pc \in {"write", "done"} =>
    \A r \in mask_primary :
      LET L == latin_map[CleanedCommon(r)]
      IN  L \in lookups["primary"].found =>
            /\ df[r].latin = L
            /\ df[r].taxid = lookups["primary"].map[L]
            /\ df[r].taxid \in {"9685", "9596"}
            /\ df[r].common = CleanedCommon(r)
            /\ pc = "done" =>
                 output.rows[r] = Row(CleanedCommon(r), L, lookups["primary"].map[L])

C12_Witness ==
  /\ pc = "done"
  /\ \E r \in mask_primary :
       /\ input[r] = Row(" cat", " Pan*", "42")
       /\ latin_map["cat"] = "Felis catus"
       /\ "Felis catus" \in lookups["primary"].found
       /\ output.rows[r] = Row("cat", "Felis catus", "9685")

\* C13: a lookup called with no names returns the empty mapping and neither
\* initializes nor queries the taxonomy service, whatever the service would
\* have done; so a primary workflow whose resolver outcomes are all sentinels
\* makes no call to the service.
C13_EmptyLookup ==
  /\ \A site \in LookupSites :
       (lookups[site].called /\ lookups[site].names = {}) =>
         /\ lookups[site].map = EmptyMap
         /\ lookups[site].inits = 0
         /\ lookups[site].queries = 0
         /\ ~lookups[site].raised
  /\ (lookups["primary"].called
        /\ \A c \in DOMAIN latin_map : latin_map[c] \in Sentinels) =>
       /\ lookups["primary"].names = {}
       /\ lookups["primary"].inits = 0
       /\ lookups["primary"].queries = 0

C13_Witness ==
  /\ lookups["primary"].called
  /\ lookups["primary"].names = {}
  /\ lookups["primary"].inits = 0
  /\ \E c \in DOMAIN latin_map : latin_map[c] = "GLM call failed"
  /\ \A c \in DOMAIN latin_map : latin_map[c] \in Sentinels
  /\ lookups["attempt1"].called
  /\ lookups["attempt1"].inits = 1

\* C14: for every name value, cleaning it twice gives the same value as
\* cleaning it once, and the same valid/invalid classification.
C14_CleanIdempotent ==
  \A k \in 2..Len(cleanings) :
    /\ cleanings[k].name = cleanings[1].name
    /\ cleanings[k].invalid = cleanings[1].invalid

C14_Witness ==
  /\ raw_name = "n*an"
  /\ Len(cleanings) = 2
  /\ cleanings[1].name = "nan"
  /\ cleanings[2].invalid

\* C15: before the retry cascade (entering it) and after it (at the merge) the
\* same values stand in the temp columns of every row outside the retry
\* subset: a fallback row whose attempt-1 lookup found an identifier has
\* temp_latin = its Latin name and temp_taxid = that identifier, a primary
\* row has the temp values of the primary workflow, and temp_common of every
\* row is what fallback (a) gave it (nothing for a row outside the fallback
\* partition).
C15_CascadeFrame ==
  pc \in {"cascade_resolve", "merge"} =>
    \A r \in Rows :
      /\ df[r].temp_common =
           IF r \in mask_fallback THEN reverse_map[df[r].latin] ELSE NaN
      /\ (r \in mask_fallback /\ df[r].latin \in lookups["attempt1"].found) =>
           /\ df[r].latin \notin failed_latin_names
           /\ df[r].temp_latin = df[r].latin
           /\ df[r].temp_latin = CleanedLatin(r)
           /\ df[r].temp_taxid = lookups["attempt1"].map[df[r].latin]
           /\ df[r].temp_taxid \in {"9685", "9596"}
      /\ r \in mask_primary =>
           /\ df[r].temp_latin = latin_map[df[r].common]
           /\ df[r].temp_taxid = MapGet(lookups["primary"].map, df[r].temp_latin)
      /\ (r \notin mask_primary /\ r \notin mask_fallback) =>
           isna(df[r].temp_latin) /\ isna(df[r].temp_taxid)

C15_Witness ==
  /\ pc = "merge"
  /\ lookups["attempt2"].called
  /\ \E r \in mask_attempt2 :
       /\ df[r].temp_latin = "Felis catus"
       /\ df[r].latin = "Pan"
  /\ \E r \in mask_fallback :
       /\ r \notin mask_attempt2
       /\ df[r].temp_taxid = "9685"

IsFallbackCall(call) ==
  call \in {"fallback_resolve", "attempt1", "cascade_resolve", "attempt2"}

\* the external calls of the fallback workflow so far, in order
FallbackCalls == SelectSeq(calls, IsFallbackCall)

\* C16: the external calls of the fallback workflow are, in this order, the
\* Latin->common resolution, the attempt-1 lookup, then the common->Latin
\* resolution and the attempt-2 lookup; the last two are made only when the
\* retryable subset is not empty, so a run whose attempt-1 lookups all found
\* an identifier stops after the attempt-1 lookup.
C16_CascadeOrder ==
  /\ FallbackCalls \in
       { << >>,
         <<"fallback_resolve">>,
         <<"fallback_resolve", "attempt1">>,
         <<"fallback_resolve", "attempt1", "cascade_resolve">>,
         <<"fallback_resolve", "attempt1", "attempt2">>,
         <<"fallback_resolve", "attempt1", "cascade_resolve", "attempt2">> }
  /\ lookups["attempt1"].called <=> "attempt1" \in ToSet(calls)
  /\ lookups["attempt2"].called <=> "attempt2" \in ToSet(calls)
  /\ (pc = "cascade_resolve" \/ "cascade_resolve" \in ToSet(calls)
        \/ "attempt2" \in ToSet(calls)) => failed_latin_names # {}
  /\ (lookups["attempt1"].called
        /\ lookups["attempt1"].found = lookups["attempt1"].names) =>
       /\ FallbackCalls = <<"fallback_resolve", "attempt1">>
       /\ pc # "cascade_resolve"
       /\ ~lookups["attempt2"].called
       /\ forward_map = EmptyMap

C16_Witness ==
  /\ pc = "done"
  /\ lookups["attempt1"].found = {"Felis catus", "Pan"}
  /\ lookups["attempt1"].names = {"Felis catus", "Pan"}
  /\ calls = <<"fallback_resolve", "attempt1">>

\* C17: after the retry cascade, the rows of the retry subset that have the
\* same recovered common name have the same temp_latin and the same
\* temp_taxid, whatever their own Latin names: the values the cascade got
\* for that common name.
C17_SameCommonSameResult ==
  (pc = "merge" /\ lookups["attempt2"].called) =>
    \A r \in mask_attempt2 :
      /\ df[r].temp_latin = MapGet(forward_map, df[r].temp_common)
      /\ df[r].temp_taxid = MapGet(lookups["attempt2"].map, df[r].temp_latin)
      /\ \A q \in mask_attempt2 :
           df[q].temp_common = df[r].temp_common =>
             /\ df[q].temp_latin = df[r].temp_latin
             /\ df[q].temp_taxid = df[r].temp_taxid

C17_Witness ==
  /\ pc = "merge"
  /\ lookups["attempt2"].called
  /\ \E r, q \in mask_attempt2 :
       /\ df[r].latin # df[q].latin
       /\ df[r].temp_common = "wild cat"
       /\ df[q].temp_common = "wild cat"
       /\ df[r].temp_latin = "Pan"
       /\ df[q].temp_latin = "Pan"
       /\ df[r].temp_taxid = "9596"

RECURSIVE CallsOf(_, _)
\* the number of oracle calls of this batch loop for the first k names
CallsOf(h, k) == IF k = 0 THEN 0 ELSE Len(h[names[k]]) + CallsOf(h, k - 1)

\* the distinct names the running batch loop is for: the Common Names of the
\* primary rows, the Latin names of the fallback rows, the recovered common
\* names of the retry rows that pass the filter
DistinctNames ==
  IF pc = "primary_resolve" THEN {df[r].common : r \in mask_primary}
  ELSE IF pc = "fallback_resolve" THEN {df[r].latin : r \in mask_fallback}
  ELSE {c \in {df[r].temp_common : r \in mask_attempt2} : UsableCommon[c]}

\* what C18 says of one name of a batch loop apart from the total: it is one
\* of the distinct names, listed once, and it is called once when its first
\* call succeeds
CalledPerDistinctName ==
  /\ ToSet(names) = DistinctNames
  /\ Len(names) = Cardinality(DistinctNames)
  /\ \A n \in ToSet(names) :
       /\ (Len(hist[n]) >= 1 /\ ~IsCallFailed(hist[n][1])) => Len(hist[n]) = 1
       /\ n \in DOMAIN rmap => Len(hist[n]) >= 1

\* C18 as stated: in each of the three batch loops of a run the oracle is
\* called for each distinct name, once when the call succeeds, and the
\* number of oracle calls is at most the number of distinct names.
C18_BoundedByNames ==
  pc \in {"primary_resolve", "fallback_resolve", "cascade_resolve"} =>
    /\ CalledPerDistinctName
    /\ CallsOf(hist, Len(names)) <= Cardinality(DistinctNames)

\* C18 as amended: in each of the three batch loops of a run the oracle is
\* called for each distinct name (for the retry cascade: each distinct
\* recovered common name that passes the filter), once when its first call
\* succeeds and at most `retries` times otherwise, so the number of oracle
\* calls is at most `retries` times the number of distinct names, whatever the
\* number of rows.
C18_BoundedByRetries ==
  pc \in {"primary_resolve", "fallback_resolve", "cascade_resolve"} =>
    /\ CalledPerDistinctName
    /\ \A n \in ToSet(names) : Len(hist[n]) <= retries
    /\ CallsOf(hist, Len(names)) <= retries * Cardinality(DistinctNames)

C18_Witness ==
  /\ pc = "primary_resolve"
  /\ BatchReturned
  /\ mask_primary = {1, 2}
  /\ input[1] # input[2]
  /\ names = <<"cat">>
  /\ Len(hist["cat"]) = 3
  /\ rmap["cat"] = "Felis catus"

\* C19: a fallback row never leaves the run with a Latin name that is
\* "unrecognizable", a call-failed outcome, empty or missing.
C19_FallbackLatinKept ==
  pc = "done" =>
    \A r \in mask_fallback :
      /\ output.rows[r].latin \notin Sentinels
      /\ ~IsCallFailed(output.rows[r].latin)
      /\ output.rows[r].latin # ""
      /\ ~isna(output.rows[r].latin)

\* the common name fallback (a) recovered for a fallback row
RecoveredCommon(r) == reverse_map[CleanedLatin(r)]

\* C20: a row of the retry subset whose recovered common name does not pass
\* the filter (invalid, "unrecognizable" or call failed) has both temp_latin
\* and temp_taxid empty after the cascade; it leaves the run with its own
\* Latin name (the Latin name column as cleaned in step 1) and with the
\* Taxonomy ID it had on input, not with the attempt-1 outcome.
C20_UnresolvedRetryRow ==
  \A r \in mask_attempt2 :
    ~UsableCommon[RecoveredCommon(r)] =>
      /\ (pc = "merge" /\ lookups["attempt2"].called) =>
           /\ df[r].temp_common = RecoveredCommon(r)
           /\ isna(df[r].temp_latin)
           /\ isna(df[r].temp_taxid)
      /\ pc = "write" => isna(df[r].temp_latin) /\ isna(df[r].temp_taxid)
      /\ pc = "done" =>
           /\ output.rows[r].latin = CleanedLatin(r)
           /\ output.rows[r].taxid = input[r].taxid
           /\ output.rows[r].taxid # lookups["attempt1"].map[CleanedLatin(r)]

C20_Witness ==
  /\ pc = "done"
  /\ \E r \in mask_attempt2 :
       /\ input[r] = Row(NaN, " Pan*", "42")
       /\ RecoveredCommon(r) = "GLM call failed"
       /\ lookups["attempt1"].map["Pan"] = "Not found: 'Pan'"
       /\ output.rows[r] = Row("GLM call failed", "Pan", "42")
  /\ \E r \in mask_attempt2 : RecoveredCommon(r) = "wild cat"

====
